---- MODULE Spec2Model ----
(***************************************************************************)
(* Model of cmd/notary/keys.go: the `keys` sub-commands of the notary CLI  *)
(* (keysRemove, keysTrust, keysList with its walk callback                 *)
(* printAllPrivateKeys, keysGenerate), and the helpers newCertificate,     *)
(* printCert and askConfirm.                                               *)
(*                                                                         *)
(* A Go string is a sequence of one-character strings.  One process runs   *)
(* one command: a behaviour starts in the state the process is in after    *)
(* its trust store was loaded, and a command action runs the handler to    *)
(* its end (return, fatalf or panic), recording in `trace` every external  *)
(* call and every line printed, in program order.                          *)
(***************************************************************************)
EXTENDS Integers, Sequences, FiniteSets, TLC

VARIABLES
    pc,        \* "start" | "walking" | "done": position of the process
    cmd,       \* the command that ran: "none", "remove", "trust", ...
    args,      \* the command's positional arguments, a sequence of strings
    env,       \* the outcomes the environment gave this run
    caStore,   \* the trust store: the set of trusted certificates
    store0,    \* the trust store as loaded at process start
    status,    \* "running" | "ok" | "fatal" | "usage" | "panic"
    trace,     \* the calls made and lines printed, in order
    cert,      \* the certificate the command resolved, generated or built
    privDir,   \* viper.GetString("privDir") during keysList
    visits,    \* the entries filepath.Walk hands to the callback, in order
    idx,       \* number of entries the callback has been called on
    records,   \* the (gun, fingerprint) lines printAllPrivateKeys printed
    walkErr,   \* what the callback last returned
    stdin,     \* the characters waiting on standard input
    confirmed  \* what askConfirm returned

vars == <<pc, cmd, args, env, caStore, store0, status, trace, cert, privDir,
          visits, idx, records, walkErr, stdin, confirmed>>

(***************************************************************************)
(* Bounds of the model.                                                    *)
(***************************************************************************)
NumKeyIDs == 2      \* distinct certificate fingerprints
MaxLocLen == 3      \* longest certificate location given to keysTrust
MaxInputLen == 4    \* longest standard input given to askConfirm
MaxEntries == 4     \* most directory entries below privDir in one walk

(***************************************************************************)
(* Strings.                                                                *)
(***************************************************************************)
Nil == "nil"
NoCert == [cn |-> <<>>, kid |-> 0]

Strings(alphabet, n) == UNION {[1..k -> alphabet] : k \in 0..n}

HasPrefix(s, prefix) ==
    /\ Len(prefix) <= Len(s)
    /\ SubSeq(s, 1, Len(prefix)) = prefix

HasSuffix(s, suffix) ==
    /\ Len(suffix) <= Len(s)
    /\ SubSeq(s, Len(s) - Len(suffix) + 1, Len(s)) = suffix

TrimPrefix(s, prefix) ==
    IF HasPrefix(s, prefix) THEN SubSeq(s, Len(prefix) + 1, Len(s)) ELSE s

TrimSuffix(s, suffix) ==
    IF HasSuffix(s, suffix) THEN SubSeq(s, 1, Len(s) - Len(suffix)) ELSE s

\* strings.Index of a one-character separator: 0 when absent (Go: -1).
IndexOf(s, c) ==
    IF \E i \in 1..Len(s) : s[i] = c
    THEN CHOOSE i \in 1..Len(s) : s[i] = c /\ \A j \in 1..(i - 1) : s[j] # c
    ELSE 0

LastIndexOf(s, c) ==
    IF \E i \in 1..Len(s) : s[i] = c
    THEN CHOOSE i \in 1..Len(s) : s[i] = c /\ \A j \in (i + 1)..Len(s) : s[j] # c
    ELSE 0

HexDigits == <<"0", "1", "2", "3", "4", "5", "6", "7", "8", "9",
               "a", "b", "c", "d", "e", "f">>

(***************************************************************************)
(* The process: its exit status, its trace and its view of the store.      *)
(***************************************************************************)
NewProcess(store) == [status |-> "running", trace |-> <<>>, store |-> store]

Event(ev, name, ok, arg) == [ev |-> ev, name |-> name, ok |-> ok, arg |-> arg]

Emit(p, e) == [p EXCEPT !.trace = Append(@, e)]

Printf(p, text) == Emit(p, Event("print", text, TRUE, <<>>))

Call(p, name, ok) == Emit(p, Event("call", name, ok, <<>>))

\* cmd.Usage(): prints the usage text and returns.
Usage(p) == Emit(p, Event("usage", "usage", TRUE, <<>>))

\* fatalf prints "* fatal: <message>" and ends the process with status 1.
fatalf(p, text) ==
    [Emit(p, Event("fatal", text, FALSE, <<>>)) EXCEPT !.status = "fatal"]

\* The handler returned: the process ends with status 0.
Return(p) == [p EXCEPT !.status = "ok"]

\* os.Exit(1) after cmd.Usage() in keysList.
ExitUsage(p) == [p EXCEPT !.status = "usage"]

\* A run-time panic (slice bounds out of range) ends the process.
Panic(p, text) ==
    [Emit(p, Event("panic", text, FALSE, <<>>)) EXCEPT !.status = "panic"]

(***************************************************************************)
(* Certificates and the trust store (package trustmanager).                *)
(***************************************************************************)
KeyIDs == 1..NumKeyIDs

\* trustmanager.FingerprintCert: the printable identifier of a certificate.
FingerprintCert(c) == <<HexDigits[c.kid + 1]>>

\* printCert: "<common name> <fingerprint> (expires in: <n> days)".
printCert(p, c) == Emit(p, Event("printCert", "printCert", TRUE, FingerprintCert(c)))

\* caStore.GetCertificateBykID: exact-match lookup by fingerprint.
GetCertificateBykID(store, id) ==
    IF \E c \in store : FingerprintCert(c) = id
    THEN [cert |-> CHOOSE c \in store : FingerprintCert(c) = id, err |-> Nil]
    ELSE [cert |-> NoCert, err |-> "NotFound"]

\* caStore.RemoveCert: NotFound when absent; the durable delete may fail.
RemoveCert(store, c, ioFails) ==
    IF c \notin store THEN [store |-> store, err |-> "NotFound"]
    ELSE IF ioFails THEN [store |-> store, err |-> "PersistenceFailure"]
    ELSE [store |-> store \ {c}, err |-> Nil]

\* caStore.AddCert: AlreadyTrusted under a known fingerprint; the durable
\* write may fail; otherwise the certificate joins the store.
AddCert(store, c, ioFails) ==
    IF \E d \in store : FingerprintCert(d) = FingerprintCert(c)
    THEN [store |-> store, err |-> "AlreadyTrusted"]
    ELSE IF ioFails THEN [store |-> store, err |-> "PersistenceFailure"]
    ELSE [store |-> store \cup {c}, err |-> Nil]

(***************************************************************************)
(* keysRemove.                                                             *)
(***************************************************************************)
MsgNeedID == "must specify a SHA256 SubjectKeyID of the certificate"
MsgRemoveFailed == "failed to remove certificate from KeyStore"
MsgNotFound == "certificate not found in any store"

\* Line 66: the lookup found the certificate.
keysRemoveFound_always(err) == TRUE

keysRemoveFound(err) == err = Nil

\* Lines 78-80: report "not found" when nothing was removed.
keysRemoveTail_always(p, failed) == fatalf(p, MsgNotFound)

keysRemoveTail(p, failed) ==
    IF failed THEN fatalf(p, MsgNotFound) ELSE Return(p)

\* Lines 67-74: print, remove, and clear `failed` unless fatalf ended the run.
keysRemoveCert(p, c, ioFails) ==
    LET p1 == printCert(Printf(p, "Removing: "), c)
        r  == RemoveCert(p1.store, c, ioFails)
        p2 == [Call(p1, "RemoveCert", r.err = Nil) EXCEPT !.store = r.store]
    IN  IF r.err # Nil
        THEN fatalf(p2, MsgRemoveFailed)
        ELSE keysRemoveTail(p2, FALSE)

keysRemove(a, store, ioFails) ==
    LET p0 == NewProcess(store)
    IN  IF Len(a) < 1
        THEN fatalf(Usage(p0), MsgNeedID)
        ELSE LET g  == GetCertificateBykID(p0.store, a[1])
                 p1 == Call(p0, "GetCertificateBykID", g.err = Nil)
             IN  IF keysRemoveFound(g.err)
                 THEN keysRemoveCert(p1, g.cert, ioFails)
                 ELSE keysRemoveTail(p1, TRUE)

(***************************************************************************)
(* net/url.Parse, as far as keysTrust reads its result: the error and the  *)
(* scheme.                                                                 *)
(***************************************************************************)
Letters == {"a", "b", "c", "d", "e", "f", "g", "h", "i", "j", "k", "l", "m",
            "n", "o", "p", "q", "r", "s", "t", "u", "v", "w", "x", "y", "z",
            "A", "B", "C", "D", "E", "F", "G", "H", "I", "J", "K", "L", "M",
            "N", "O", "P", "Q", "R", "S", "T", "U", "V", "W", "X", "Y", "Z"}
Digits == {"0", "1", "2", "3", "4", "5", "6", "7", "8", "9"}
HexChars == Digits \cup {"a", "b", "c", "d", "e", "f", "A", "B", "C", "D", "E", "F"}
LowHex == {"0", "1", "2", "3", "4", "5", "6", "7"}

\* getScheme: split "scheme:rest"; a string whose scheme part holds another
\* character has no scheme, and a leading colon is an error.
RECURSIVE getSchemeAt(_, _)
getSchemeAt(s, i) ==
    IF i > Len(s) THEN [scheme |-> <<>>, rest |-> s, err |-> Nil]
    ELSE IF s[i] \in Letters THEN getSchemeAt(s, i + 1)
    ELSE IF s[i] \in Digits \cup {"+", "-", "."}
         THEN IF i = 1 THEN [scheme |-> <<>>, rest |-> s, err |-> Nil]
              ELSE getSchemeAt(s, i + 1)
    ELSE IF s[i] = ":"
         THEN IF i = 1
              THEN [scheme |-> <<>>, rest |-> <<>>, err |-> "missing protocol scheme"]
              ELSE [scheme |-> SubSeq(s, 1, i - 1),
                    rest |-> SubSeq(s, i + 1, Len(s)), err |-> Nil]
    ELSE [scheme |-> <<>>, rest |-> s, err |-> Nil]

getScheme(s) == getSchemeAt(s, 1)

\* unescape: every "%" is followed by two hexadecimal digits; in a host the
\* escape of an ASCII byte other than "%25" is refused.
validEscapes(s, inHost) ==
    \A i \in 1..Len(s) :
        s[i] = "%" =>
            /\ i + 2 <= Len(s)
            /\ s[i + 1] \in HexChars
            /\ s[i + 2] \in HexChars
            /\ inHost => (s[i + 1] \notin LowHex \/ SubSeq(s, i, i + 2) = <<"%", "2", "5">>)

\* validOptionalPort: "" or ":" followed by digits only.
validOptionalPort(port) ==
    \/ port = <<>>
    \/ /\ port[1] = ":"
       /\ \A i \in 2..Len(port) : port[i] \in Digits

\* parseHost, for a host without brackets or user information.
validHost(host) ==
    /\ LET i == LastIndexOf(host, ":")
       IN  i # 0 => validOptionalPort(SubSeq(host, i, Len(host)))
    /\ validEscapes(host, TRUE)

\* parse, once the scheme and the query are split off: rest is what is
\* left of the URL, an authority and a path, or a path alone.
parseRest(scheme, rest) ==
    LET slash == IndexOf(rest, "/")
        seg1  == IF slash = 0 THEN rest ELSE SubSeq(rest, 1, slash - 1)
        auth  == SubSeq(rest, 3, Len(rest))
        aEnd  == IndexOf(auth, "/")
        host  == IF aEnd = 0 THEN auth ELSE SubSeq(auth, 1, aEnd - 1)
        path  == IF aEnd = 0 THEN <<>> ELSE SubSeq(auth, aEnd, Len(auth))
    IN  IF ~HasPrefix(rest, <<"/">>) /\ scheme # <<>>
        THEN [scheme |-> scheme, err |-> Nil]
        ELSE IF ~HasPrefix(rest, <<"/">>) /\ IndexOf(seg1, ":") # 0
             THEN [scheme |-> <<>>,
                   err |-> "first path segment in URL cannot contain colon"]
        ELSE IF /\ scheme # <<>> \/ ~HasPrefix(rest, <<"/", "/", "/">>)
                /\ HasPrefix(rest, <<"/", "/">>)
             THEN IF \A h \in {host} : validHost(h)
                  THEN IF \A q \in {path} : validEscapes(q, FALSE)
                       THEN [scheme |-> scheme, err |-> Nil]
                       ELSE [scheme |-> <<>>, err |-> "invalid URL escape"]
                  ELSE [scheme |-> <<>>, err |-> "invalid host or port"]
        ELSE IF validEscapes(rest, FALSE)
             THEN [scheme |-> scheme, err |-> Nil]
             ELSE [scheme |-> <<>>, err |-> "invalid URL escape"]

\* The query is what follows the first "?".
cutQuery(rest) ==
    LET q == IndexOf(rest, "?")
    IN  IF q = 0 THEN rest ELSE SubSeq(rest, 1, q - 1)

\* parse(rawURL, viaRequest = false) after the fragment was cut off.  Each
\* intermediate string is bound once it is computed.
parseNoFragment(raw) ==
    IF raw = <<"*">> THEN [scheme |-> <<>>, err |-> Nil]
    ELSE CHOOSE result \in
            {IF g.err # Nil THEN [scheme |-> <<>>, err |-> g.err]
             ELSE CHOOSE r \in {parseRest(g.scheme, rest) : rest \in {cutQuery(g.rest)}} : TRUE
                : g \in {getScheme(raw)}} : TRUE

urlParse(raw) ==
    LET h == IndexOf(raw, "#")
    IN  CHOOSE result \in
            {IF r.err = Nil /\ h # 0 /\ ~validEscapes(SubSeq(raw, h + 1, Len(raw)), FALSE)
             THEN [scheme |-> <<>>, err |-> "invalid URL escape"]
             ELSE r
                : r \in {parseNoFragment(u) :
                            u \in {IF h = 0 THEN raw ELSE SubSeq(raw, 1, h - 1)}}} : TRUE

(***************************************************************************)
(* askConfirm: fmt.Scanln of one word, then strings.EqualFold.             *)
(***************************************************************************)
Spaces == {" ", "\t"}

\* SkipSpace under Scanln: the index of the first character that is not a
\* space, Len + 1 at the end of input; a newline met on the way is an error.
RECURSIVE skipSpace(_, _)
skipSpace(in, i) ==
    IF i > Len(in) THEN [at |-> i, err |-> Nil]
    ELSE IF in[i] = "\n" THEN [at |-> i, err |-> "unexpected newline"]
    ELSE IF in[i] \in Spaces THEN skipSpace(in, i + 1)
    ELSE [at |-> i, err |-> Nil]

\* token(notSpace): the index after the last character of the word at i.
RECURSIVE tokenEnd(_, _)
tokenEnd(in, i) ==
    IF i > Len(in) \/ in[i] \in Spaces \cup {"\n"} THEN i
    ELSE tokenEnd(in, i + 1)

\* doScan's check after the operands: only spaces up to a newline or EOF.
RECURSIVE expectNewline(_, _)
expectNewline(in, i) ==
    IF i > Len(in) \/ in[i] = "\n" THEN Nil
    ELSE IF in[i] \in Spaces THEN expectNewline(in, i + 1)
    ELSE "expected newline"

\* fmt.Scanln(&res): the word stored in res and the error.
Scanln(in) ==
    LET s == skipSpace(in, 1)
        e == tokenEnd(in, s.at)
    IN  IF s.err # Nil THEN [res |-> <<>>, err |-> s.err]
        ELSE IF s.at > Len(in) THEN [res |-> <<>>, err |-> "unexpected EOF"]
        ELSE [res |-> SubSeq(in, s.at, e - 1), err |-> expectNewline(in, e)]

\* Unicode code points of the characters the inputs are drawn from;
\* "long_s" stands for U+017F, LATIN SMALL LETTER LONG S.
Rune(c) ==
    CASE c = "\t" -> 9 [] c = "\n" -> 10 [] c = " " -> 32
      [] c = "E" -> 69 [] c = "N" -> 78 [] c = "S" -> 83 [] c = "Y" -> 89
      [] c = "e" -> 101 [] c = "n" -> 110 [] c = "s" -> 115 [] c = "y" -> 121
      [] c = "long_s" -> 383
      [] OTHER -> 0

\* unicode.SimpleFold: the next code point of the character's folding orbit.
SimpleFold(r) ==
    CASE r = 69 -> 101 [] r = 101 -> 69
      [] r = 78 -> 110 [] r = 110 -> 78
      [] r = 89 -> 121 [] r = 121 -> 89
      [] r = 83 -> 115 [] r = 115 -> 383 [] r = 383 -> 83
      [] OTHER -> r

\* The loop of EqualFold's general case: fold sr until it wraps or passes tr.
RECURSIVE foldUpTo(_, _, _)
foldUpTo(r, sr, tr) ==
    IF r # sr /\ r < tr THEN foldUpTo(SimpleFold(r), sr, tr) ELSE r

\* One pair of runes of strings.EqualFold.
runeEqualFold(a, b) ==
    LET sr == IF a <= b THEN a ELSE b
        tr == IF a <= b THEN b ELSE a
    IN  \/ sr = tr
        \/ /\ tr < 128
           /\ 65 <= sr /\ sr <= 90
           /\ tr = sr + 32
        \/ /\ tr >= 128
           /\ foldUpTo(SimpleFold(sr), sr, tr) = tr

EqualFold_exact(s, t) == s = t

EqualFold(s, t) ==
    /\ Len(s) = Len(t)
    /\ \A i \in 1..Len(s) : runeEqualFold(Rune(s[i]), Rune(t[i]))

askConfirm(in) ==
    LET r == Scanln(in)
    IN  IF r.err # Nil THEN FALSE
        ELSE IF EqualFold(r.res, <<"y">>) \/ EqualFold(r.res, <<"y", "e", "s">>)
             THEN TRUE
        ELSE FALSE

(***************************************************************************)
(* keysTrust.                                                              *)
(***************************************************************************)
MsgNeedLocation == "please provide a URL or filename to a certificate"
MsgURLError == "error retrieving certificate from url (%s): %v"
MsgFileError == "error adding certificate from file: %v"
MsgNoSource == "please provide a file location or URL for CA certificate."
MsgAbort == "aborting action."
MsgConfirm == "Are you sure you want to add trust for: %s? (yes/no)"

\* Line 95: the argument parsed as a URL and has a scheme.
isURL_fileFirst(u, fileExists) == u.err = Nil /\ u.scheme # <<>> /\ ~fileExists

isURL(u, fileExists) == u.err = Nil /\ u.scheme # <<>>

\* Lines 94-108: the certificate source resolver.  e.retrieved is the
\* certificate the source yields, NoCert when retrieval fails.
keysTrustResolve(p, loc, e) ==
    LET u  == urlParse(loc)
        p1 == Call(p, "url.Parse", u.err = Nil)
    IN  IF isURL(u, e.fileExists)
        THEN LET p2 == Call(p1, "GetCertFromURL", e.retrieved # NoCert)
             IN  IF e.retrieved = NoCert
                 THEN [p |-> fatalf(p2, MsgURLError), cert |-> NoCert]
                 ELSE [p |-> p2, cert |-> e.retrieved]
        ELSE LET p2 == Call(p1, "os.Stat", e.fileExists)
                 p3 == Call(p2, "LoadCertFromFile", e.retrieved # NoCert)
             IN  IF e.fileExists
                 THEN IF e.retrieved = NoCert
                      THEN [p |-> fatalf(p3, MsgFileError), cert |-> NoCert]
                      ELSE [p |-> p3, cert |-> e.retrieved]
                 ELSE [p |-> fatalf(p2, MsgNoSource), cert |-> NoCert]

\* Line 113: the answer that lets the certificate be added.
keysTrustConfirmed_any(answer) == TRUE

keysTrustConfirmed(answer) == answer

\* Lines 110-123: ask, add, report.
keysTrustAdd(p, c, e) ==
    LET answer == askConfirm(e.stdin)
        p1 == Call(Printf(p, MsgConfirm), "askConfirm", answer)
        r  == AddCert(p1.store, c, e.ioFails)
        p2 == [Call(p1, "AddCert", r.err = Nil) EXCEPT !.store = r.store]
    IN  IF ~keysTrustConfirmed(answer) THEN fatalf(p1, MsgAbort)
        ELSE IF r.err # Nil THEN fatalf(p2, MsgFileError)
        ELSE Return(printCert(Printf(p2, "Adding: "), c))

keysTrust(a, store, e) ==
    LET p0 == NewProcess(store)
        r  == keysTrustResolve(p0, a[1], e)
    IN  IF Len(a) < 1
        THEN [p |-> fatalf(Usage(p0), MsgNeedLocation), cert |-> NoCert]
        ELSE IF r.p.status # "running" THEN r
        ELSE [p |-> keysTrustAdd(r.p, r.cert, e), cert |-> r.cert]

(***************************************************************************)
(* keysGenerate.                                                           *)
(***************************************************************************)
MsgNeedGUN == "must specify a GUN"
MsgInvalidGUN == "invalid Global Unique Name: %s"
MsgKeyGen == "could not generate key: %v"
MsgGenerated == "Generated new keypair with ID: "

\* generateKeyAndCert: a new key and a self-signed certificate whose common
\* name is the GUN; e.newKid = 0 stands for a failed key generation.
generateKeyAndCert(gun, e) ==
    IF e.newKid = 0
    THEN [cert |-> NoCert, err |-> "KeyGenFailure"]
    ELSE [cert |-> [cn |-> gun, kid |-> e.newKid], err |-> Nil]

\* Lines 179-186: generate, add (the error of AddCert is dropped), report.
keysGenerateAdd(p, gun, e) ==
    LET g  == generateKeyAndCert(gun, e)
        p1 == Call(p, "generateKeyAndCert", g.err = Nil)
        r  == AddCert(p1.store, g.cert, e.ioFails)
        p2 == [Call(p1, "AddCert", r.err = Nil) EXCEPT !.store = r.store]
    IN  IF g.err # Nil
        THEN [p |-> fatalf(p1, MsgKeyGen), cert |-> NoCert]
        ELSE [p |-> Return(Emit(p2, Event("print", MsgGenerated, TRUE,
                                          FingerprintCert(g.cert)))),
              cert |-> g.cert]

keysGenerate(a, store, e) ==
    LET p0 == NewProcess(store)
    IN  IF Len(a) < 1
        THEN [p |-> fatalf(Usage(p0), MsgNeedGUN), cert |-> NoCert]
        ELSE IF Len(a[1]) < 1
        THEN [p |-> Panic(p0, "slice bounds out of range [:1] with length 0"),
              cert |-> NoCert]
        ELSE IF a[1][1] = "/" \/ a[1][1] = "\\"
        THEN [p |-> fatalf(p0, MsgInvalidGUN), cert |-> NoCert]
        ELSE keysGenerateAdd(p0, a[1], e)

(***************************************************************************)
(* The inputs and the environment of one run of a trust-store command.     *)
(***************************************************************************)
\* Global Unique Names given to `keys generate`.
Guns == {<<>>, <<"/", "e">>, <<"\\", "e">>, <<"a">>, <<"a", "/", "b">>}

ValidGuns == {g \in Guns : g # <<>> /\ g[1] \notin {"/", "\\"}}

CommonNames == {<<"c", "a">>} \cup ValidGuns

Certs == [cn : CommonNames, kid : KeyIDs]

\* The store never holds two certificates under one fingerprint.
Stores ==
    {s \in SUBSET Certs :
        \A c, d \in s : FingerprintCert(c) = FingerprintCert(d) => c = d}

\* Certificates a URL or a file may hold.
SourceCerts == [cn : {<<"c", "a">>}, kid : KeyIDs]

\* IDs given to `keys remove`: every fingerprint, and strings that are none.
RemoveIDs == {FingerprintCert(c) : c \in Certs} \cup {<<>>, <<"z">>}

LocAlphabet == {"h", "1", ":", "/"}

\* Locations given to `keys trust`: every short string, and longer ones
\* whose scheme-like prefix is followed by an invalid port or escape.
Locations ==
    Strings(LocAlphabet, MaxLocLen)
        \cup {<<"h", ":", "/", "%">>, <<"h", ":", "/", "/", "h", ":", "h">>,
              <<"h", ":", "/", "/", "h", "/", "%", "4", "1">>}

\* Lines typed at the confirmation prompt.
Answers == {<<>>, <<"y", "e", "s", "\n">>, <<"Y", "\n">>, <<"n", "o", "\n">>,
            <<"y", "e", "s", " ", "n", "o", "\n">>}

NoEnv == [fileExists |-> FALSE, retrieved |-> NoCert, ioFails |-> FALSE,
          stdin |-> <<>>, newKid |-> 0]

idle ==
    /\ privDir = <<>>
    /\ visits = <<>>
    /\ idx = 0
    /\ records = <<>>
    /\ walkErr = Nil
    /\ stdin = <<>>
    /\ confirmed = FALSE

Init ==
    /\ pc = "start"
    /\ cmd = "none"
    /\ args = <<>>
    /\ env = NoEnv
    /\ caStore \in Stores
    /\ store0 = caStore
    /\ status = "running"
    /\ trace = <<>>
    /\ cert = NoCert
    /\ idle

\* The process ran handler `name` on `a` under `e` and ended as `p`.
Ran(name, a, e, p, c) ==
    /\ pc' = "done"
    /\ cmd' = name
    /\ args' = a
    /\ env' = e
    /\ caStore' = p.store
    /\ status' = p.status
    /\ trace' = p.trace
    /\ cert' = c
    /\ UNCHANGED <<store0, privDir, visits, idx, records, walkErr, stdin, confirmed>>

KeysRemove ==
    /\ pc = "start"
    /\ \E a \in {<<>>} \cup {<<id>> : id \in RemoveIDs}, ioFails \in BOOLEAN :
          LET e == [NoEnv EXCEPT !.ioFails = ioFails]
              p == keysRemove(a, caStore, ioFails)
          IN  Ran("remove", a, e, p, NoCert)

KeysTrust ==
    /\ pc = "start"
    /\ \E a \in {<<>>} \cup {<<loc>> : loc \in Locations},
          fileExists \in BOOLEAN,
          retrieved \in SourceCerts \cup {NoCert},
          answer \in Answers,
          ioFails \in BOOLEAN :
          LET e == [NoEnv EXCEPT !.fileExists = fileExists,
                                 !.retrieved = retrieved,
                                 !.stdin = answer,
                                 !.ioFails = ioFails]
              r == keysTrust(a, caStore, e)
          IN  Ran("trust", a, e, r.p, r.cert)

KeysGenerate ==
    /\ pc = "start"
    /\ \E a \in {<<>>} \cup {<<gun>> : gun \in Guns},
          newKid \in {0} \cup {k \in KeyIDs : \A c \in caStore : c.kid # k},
          ioFails \in BOOLEAN :
          LET e == [NoEnv EXCEPT !.newKid = newKid, !.ioFails = ioFails]
              r == keysGenerate(a, caStore, e)
          IN  Ran("generate", a, e, r.p, r.cert)

Next == KeysRemove \/ KeysTrust \/ KeysGenerate

Spec == Init /\ [][Next]_vars

(***************************************************************************)
(* path/filepath on a Unix build: Clean, Join, Ext, Base, Dir, Match.      *)
(***************************************************************************)
Sep == <<"/">>
DotKey == <<".", "k", "e", "y">>

\* The path elements between separators, empty ones included.
RECURSIVE splitPath(_)
splitPath(path) ==
    LET i == IndexOf(path, "/")
    IN  IF i = 0 THEN <<path>>
        ELSE <<SubSeq(path, 1, i - 1)>> \o splitPath(SubSeq(path, i + 1, Len(path)))

RECURSIVE joinPath(_)
joinPath(elems) ==
    IF elems = <<>> THEN <<>>
    ELSE IF Len(elems) = 1 THEN elems[1]
    ELSE elems[1] \o Sep \o joinPath(Tail(elems))

\* Clean's pass over the elements: drop "" and ".", let ".." remove the
\* element before it (at the root it is dropped, at the start it stays).
RECURSIVE cleanElems(_, _, _)
cleanElems(elems, kept, rooted) ==
    IF elems = <<>> THEN kept
    ELSE LET e == Head(elems)
             n == Len(kept)
         IN  IF e = <<>> \/ e = <<".">> THEN cleanElems(Tail(elems), kept, rooted)
             ELSE IF e = <<".", ".">>
                  THEN IF n > 0 /\ kept[n] # <<".", ".">>
                       THEN cleanElems(Tail(elems), SubSeq(kept, 1, n - 1), rooted)
                       ELSE IF rooted THEN cleanElems(Tail(elems), kept, rooted)
                       ELSE cleanElems(Tail(elems), Append(kept, e), rooted)
             ELSE cleanElems(Tail(elems), Append(kept, e), rooted)

Clean(path) ==
    LET rooted == path # <<>> /\ path[1] = "/"
        body   == joinPath(cleanElems(splitPath(path), <<>>, rooted))
    IN  IF rooted THEN Sep \o body
        ELSE IF body = <<>> THEN <<".">>
        ELSE body

\* filepath.Join of two elements.
Join(a, b) ==
    IF a = <<>> /\ b = <<>> THEN <<>>
    ELSE IF a = <<>> THEN Clean(b)
    ELSE Clean(a \o Sep \o b)

\* filepath.Ext: from the last dot of the last element on.
Ext(path) ==
    LET slash == LastIndexOf(path, "/")
        dot   == LastIndexOf(path, ".")
    IN  IF dot > slash THEN SubSeq(path, dot, Len(path)) ELSE <<>>

RECURSIVE trimTrailingSep(_)
trimTrailingSep(path) ==
    IF path # <<>> /\ path[Len(path)] = "/"
    THEN trimTrailingSep(SubSeq(path, 1, Len(path) - 1))
    ELSE path

\* filepath.Base: the last element, trailing separators removed first.
Base(path) ==
    LET t == trimTrailingSep(path)
        b == SubSeq(t, LastIndexOf(t, "/") + 1, Len(t))
    IN  IF path = <<>> THEN <<".">>
        ELSE IF b = <<>> THEN Sep
        ELSE b

\* filepath.Dir: all but the last element, cleaned.
Dir(path) == Clean(SubSeq(path, 1, LastIndexOf(path, "/")))

\* filepath.Match("*.key", name): the star matches no separator.
matchKey(name) == HasSuffix(name, DotKey) /\ IndexOf(name, "/") = 0

(***************************************************************************)
(* keysList and its walk callback printAllPrivateKeys.                     *)
(***************************************************************************)
\* Lines 145-147: what the callback returns for an entry that errored.
onWalkError_propagate == "walk error"

onWalkError == Nil

\* Lines 156-160: the (gun, fingerprint) pair of a key file's path.
decompose(fp, root) ==
    LET noExt == TrimSuffix(fp, Ext(fp))
        rel   == TrimPrefix(noExt, root)
        d     == Dir(rel)
    IN  [gun |-> SubSeq(d, 2, Len(d)), fingerprint |-> Base(rel)]

\* printAllPrivateKeys(fp, fi, err): the lines printed and the value returned.
printAllPrivateKeys(v, root) ==
    IF v.err THEN [out |-> <<>>, ret |-> onWalkError]
    ELSE IF v.isDir THEN [out |-> <<>>, ret |-> Nil]
    ELSE IF matchKey(v.name) THEN [out |-> <<decompose(v.fp, root)>>, ret |-> Nil]
    ELSE [out |-> <<>>, ret |-> Nil]

\* The private-key storage layout: <GUN>/<fingerprint>.key below the root.
KeyPath(gun, fingerprint) == gun \o Sep \o fingerprint \o DotKey

Entry(rel, isDir, parent, gun, fingerprint) ==
    [rel |-> rel, isDir |-> isDir, parent |-> parent,
     layout |-> fingerprint # <<>>, gun |-> gun, fingerprint |-> fingerprint]

\* The entries a tree below privDir may hold, in the lexical order in which
\* filepath.Walk visits them; parent is the index of the directory holding
\* the entry, 0 for privDir itself.
Universe ==
    << Entry(<<"a">>, TRUE, 0, <<>>, <<>>),
       Entry(<<"a", "/", "b">>, TRUE, 1, <<>>, <<>>),
       Entry(KeyPath(<<"a", "/", "b">>, <<"0", "f">>), FALSE, 2,
             <<"a", "/", "b">>, <<"0", "f">>),
       Entry(KeyPath(<<"a">>, <<"f">>), FALSE, 1, <<"a">>, <<"f">>),
       Entry(<<"a", "/", "f", ".", "t", "x", "t">>, FALSE, 1, <<>>, <<>>),
       Entry(<<"a", "/", "k", ".", "k", "e", "y">>, TRUE, 1, <<>>, <<>>),
       Entry(<<"k", "e", "y">>, FALSE, 0, <<>>, <<>>) >>

\* A tree: the entries present and those whose lstat or directory read
\* fails.  An entry is present only below a present directory that could
\* be read.
Trees ==
    {t \in [present : SUBSET (1..Len(Universe)), failing : SUBSET (1..Len(Universe))] :
        /\ Cardinality(t.present) <= MaxEntries
        /\ t.failing \subseteq t.present
        /\ \A i \in t.present :
              Universe[i].parent # 0 =>
                  /\ Universe[i].parent \in t.present
                  /\ Universe[i].parent \notin t.failing}

\* The values of privDir: as the layout's writer cleans it, with a trailing
\* separator, relative, and relative with a leading "./".
PrivDirs == {<<"/", "r">>, <<"/", "r", "/">>, <<"r">>, <<".", "/", "r">>}

NthOf(set, n) == CHOOSE x \in set : Cardinality({y \in set : y < x}) = n - 1

Visit(fp, name, isDir, err, u) ==
    [fp |-> fp, name |-> name, isDir |-> isDir, err |-> err,
     layout |-> u.layout, gun |-> u.gun, fingerprint |-> u.fingerprint]

\* filepath.Walk(root, fn): root itself as given, then every entry under its
\* joined path; nothing below a root whose lstat or read fails.
Walk(root, rootFails, t) ==
    <<Visit(root, Base(root), TRUE, rootFails, Universe[1])>>
        \o IF rootFails THEN <<>>
           ELSE [n \in 1..Cardinality(t.present) |->
                    LET i == NthOf(t.present, n)
                    IN  Visit(Join(root, Universe[i].rel), Base(Universe[i].rel),
                              Universe[i].isDir, i \in t.failing, Universe[i])]

\* caStore.GetCertificates, in order of fingerprint.
GetCertificates(store) ==
    [n \in 1..Cardinality(store) |->
        CHOOSE c \in store : Cardinality({d \in store : d.kid < c.kid}) = n - 1]

RECURSIVE printCerts(_, _)
printCerts(p, cs) ==
    IF cs = <<>> THEN p ELSE printCerts(printCert(p, Head(cs)), Tail(cs))

\* Lines 126-139: keysList up to the call of filepath.Walk.
keysList(a, store) ==
    LET p0 == NewProcess(store)
        p1 == printCerts(Printf(p0, "# Trusted Root keys: "), GetCertificates(store))
    IN  IF Len(a) > 0 THEN ExitUsage(Usage(p0))
        ELSE Printf(Printf(p1, ""), "# Signing keys: ")

InitList ==
    /\ pc = "start"
    /\ cmd = "none"
    /\ args = <<>>
    /\ env = NoEnv
    /\ caStore \in {s \in Stores : Cardinality(s) <= 1}
    /\ store0 = caStore
    /\ status = "running"
    /\ trace = <<>>
    /\ cert = NoCert
    /\ idle

KeysList ==
    /\ pc = "start"
    /\ \E a \in {<<>>, <<<<"x">>>>}, root \in PrivDirs, rootFails \in BOOLEAN,
          t \in Trees :
          LET p == keysList(a, caStore)
          IN  /\ pc' = IF p.status = "running" THEN "walking" ELSE "done"
              /\ cmd' = "list"
              /\ args' = a
              /\ status' = p.status
              /\ trace' = p.trace
              /\ privDir' = IF p.status = "running" THEN root ELSE <<>>
              /\ visits' = IF p.status = "running" THEN Walk(root, rootFails, t) ELSE <<>>
    /\ UNCHANGED <<env, caStore, store0, cert, idx, records, walkErr, stdin, confirmed>>

\* filepath.Walk calls the callback on the next entry; a value other than
\* nil ends the walk.  keysList returns when the walk has returned.
WalkVisit ==
    /\ pc = "walking"
    /\ idx < Len(visits)
    /\ LET r == printAllPrivateKeys(visits[idx + 1], privDir)
           last == r.ret # Nil \/ idx + 1 = Len(visits)
       IN  /\ idx' = idx + 1
           /\ walkErr' = r.ret
           /\ records' = records \o [n \in 1..Len(r.out) |->
                             [src |-> idx + 1, gun |-> r.out[n].gun,
                              fingerprint |-> r.out[n].fingerprint]]
           /\ pc' = IF last THEN "done" ELSE "walking"
           /\ status' = IF last THEN "ok" ELSE status
    /\ UNCHANGED <<cmd, args, env, caStore, store0, trace, cert, privDir, visits,
                   stdin, confirmed>>

NextList == KeysList \/ WalkVisit

SpecList == InitList /\ [][NextList]_vars

(***************************************************************************)
(* askConfirm on every short standard input.                               *)
(***************************************************************************)
InputAlphabet == {"y", "Y", "e", "E", "s", "S", "long_s", "n", " ", "\n"}

Inputs == Strings(InputAlphabet, MaxInputLen)

InitConfirm ==
    /\ pc = "start"
    /\ cmd = "none"
    /\ args = <<>>
    /\ env = NoEnv
    /\ caStore = {}
    /\ store0 = {}
    /\ status = "running"
    /\ trace = <<>>
    /\ cert = NoCert
    /\ privDir = <<>>
    /\ visits = <<>>
    /\ idx = 0
    /\ records = <<>>
    /\ walkErr = Nil
    /\ stdin \in Inputs
    /\ confirmed = FALSE

AskConfirm ==
    /\ pc = "start"
    /\ pc' = "done"
    /\ cmd' = "askConfirm"
    /\ confirmed' = askConfirm(stdin)
    /\ UNCHANGED <<args, env, caStore, store0, status, trace, cert, privDir,
                   visits, idx, records, walkErr, stdin>>

SpecConfirm == InitConfirm /\ [][AskConfirm]_vars

(***************************************************************************)
(* newCertificate.  Times and durations are counted in seconds; a big.Int  *)
(* is the sequence of its base-65536 digits, lowest first, without leading *)
(* zero digits.                                                            *)
(***************************************************************************)
Hour == 60 * 60

\* Line 191: time.Hour * 24 * 365 * 2.
validity_oneYear == Hour * 24 * 365

validity == Hour * 24 * 365 * 2

\* new(big.Int).Lsh(big.NewInt(1), n).
Lsh1(n) ==
    [i \in 1..((n \div 16) + 1) |-> IF i = (n \div 16) + 1 THEN 2 ^ (n % 16) ELSE 0]

\* Line 193: the exclusive upper limit of the serial number.
serialNumberLimit == Lsh1(128)

\* a < b for big.Ints.
BigLess(a, b) ==
    \/ Len(a) < Len(b)
    \/ /\ Len(a) = Len(b)
       /\ \E i \in 1..Len(a) :
             /\ a[i] < b[i]
             /\ \A j \in (i + 1)..Len(a) : a[j] = b[j]

AllOnes(k) == [i \in 1..k |-> 65535]

\* Values the random source is tried with: 0, 1, 2^(16k) - 1 and powers of
\* two around the limit.
RandValues ==
    {<<>>, <<1>>} \cup {AllOnes(k) : k \in 1..9}
        \cup {Lsh1(n) : n \in {64, 127, 128, 129}}

\* rand.Int(rand.Reader, max): a value in [0, max), or an error.
RandOutcomes(max) ==
    {[fails |-> TRUE, n |-> <<>>]}
        \cup {[fails |-> FALSE, n |-> v] : v \in {w \in RandValues : BigLess(w, max)}}

MsgSerial == "failed to generate serial number: %s"

newCertificate(gun, organization, now, r) ==
    LET p0 == NewProcess({})
        notBefore == now
        notAfter  == notBefore + validity
    IN  IF r.fails
        THEN [p |-> fatalf(p0, MsgSerial), cert |-> NoCert]
        ELSE [p |-> Return(p0),
              cert |-> [SerialNumber |-> r.n,
                        Subject |-> [Organization |-> <<organization>>,
                                     CommonName |-> gun],
                        NotBefore |-> notBefore,
                        NotAfter |-> notAfter,
                        KeyUsage |-> {"KeyEncipherment", "DigitalSignature"},
                        ExtKeyUsage |-> <<"CodeSigning">>,
                        BasicConstraintsValid |-> TRUE]]

\* Values of time.Now(), in seconds.
Clock == {0, 1, 1445000000}

Organizations == {<<>>, <<"d", "o", "c", "k", "e", "r">>}

InitCert ==
    /\ pc = "start"
    /\ cmd = "none"
    /\ args = <<>>
    /\ env = NoEnv
    /\ caStore = {}
    /\ store0 = {}
    /\ status = "running"
    /\ trace = <<>>
    /\ cert = NoCert
    /\ idle

NewCertificate ==
    /\ pc = "start"
    /\ \E gun \in Guns, organization \in Organizations, now \in Clock,
          r \in RandOutcomes(serialNumberLimit) :
          LET c == newCertificate(gun, organization, now, r)
          IN  /\ pc' = "done"
              /\ cmd' = "newCertificate"
              /\ args' = <<gun, organization>>
              /\ env' = [now |-> now, rand |-> r]
              /\ status' = c.p.status
              /\ trace' = c.p.trace
              /\ cert' = c.cert
    /\ UNCHANGED <<caStore, store0, privDir, visits, idx, records, walkErr,
                   stdin, confirmed>>

SpecCert == InitCert /\ [][NewCertificate]_vars

(***************************************************************************)
(* Reading the trace.                                                      *)
(***************************************************************************)
CallsOf(name) ==
    {i \in DOMAIN trace : trace[i].ev = "call" /\ trace[i].name = name}

FatalMsgs == {trace[i].name : i \in {j \in DOMAIN trace : trace[j].ev = "fatal"}}

PrintsOf(text) ==
    {i \in DOMAIN trace : trace[i].ev = "print" /\ trace[i].name = text}

Ended(name) == pc = "done" /\ cmd = name

(***************************************************************************)
(* C1: a run of keysRemove on an ID ends in exactly one of three outcomes: *)
(* the lookup failed, RemoveCert was never called and the only failure     *)
(* reported is "not found"; the lookup succeeded, the removal failed and   *)
(* the only failure reported is "failed to remove"; or both succeeded and  *)
(* no failure is reported.  "not found" is never reported on a run that    *)
(* found the certificate.                                                  *)
(***************************************************************************)
C1_RemoveOutcomes ==
    (Ended("remove") /\ Len(args) >= 1) =>
        LET lookups == CallsOf("GetCertificateBykID")
            removes == CallsOf("RemoveCert")
            found   == \E i \in lookups : trace[i].ok
            notFoundOnly ==
                /\ ~found
                /\ removes = {}
                /\ FatalMsgs = {MsgNotFound}
                /\ status = "fatal"
            removalFailed ==
                /\ found
                /\ Cardinality(removes) = 1
                /\ \A i \in removes : ~trace[i].ok
                /\ FatalMsgs = {MsgRemoveFailed}
                /\ status = "fatal"
            removed ==
                /\ found
                /\ Cardinality(removes) = 1
                /\ \A i \in removes : trace[i].ok
                /\ FatalMsgs = {}
                /\ status = "ok"
        IN  /\ Cardinality(lookups) = 1
            /\ Cardinality({o \in {"a", "b", "c"} :
                               \/ o = "a" /\ notFoundOnly
                               \/ o = "b" /\ removalFailed
                               \/ o = "c" /\ removed}) = 1
            /\ found => MsgNotFound \notin FatalMsgs

\* The certificate was found and its removal failed.
C1_Witness ==
    /\ Ended("remove")
    /\ \E i \in CallsOf("GetCertificateBykID") : trace[i].ok
    /\ MsgRemoveFailed \in FatalMsgs

(***************************************************************************)
(* C2: keysRemove on an ID that no trusted certificate has makes no        *)
(* RemoveCert call, fails with "not found" and leaves the trust store as   *)
(* it was.                                                                 *)
(***************************************************************************)
C2_RemoveAbsentUnchanged ==
    (/\ Ended("remove")
     /\ Len(args) >= 1
     /\ \A c \in store0 : FingerprintCert(c) # args[1]) =>
        /\ CallsOf("RemoveCert") = {}
        /\ caStore = store0
        /\ status = "fatal"
        /\ MsgNotFound \in FatalMsgs

\* The ID is absent from a store that holds certificates.
C2_Witness ==
    /\ Ended("remove")
    /\ Len(args) >= 1
    /\ store0 # {}
    /\ \A c \in store0 : FingerprintCert(c) # args[1]

(***************************************************************************)
(* C3: keysTrust resolves URL-first.  A location that parses as a URL with *)
(* a scheme is fetched from the URL and the filesystem is never consulted, *)
(* whether or not a file of that name exists; a failed fetch ends the run. *)
(* Any other location is looked up as a file and never fetched, and when   *)
(* no such file exists the run fails without a certificate.                *)
(***************************************************************************)
C3_URLFirst ==
    (Ended("trust") /\ Len(args) >= 1) =>
        LET u     == urlParse(args[1])
            asURL == u.err = Nil /\ u.scheme # <<>>
        IN  /\ asURL =>
                /\ Cardinality(CallsOf("GetCertFromURL")) = 1
                /\ CallsOf("os.Stat") = {}
                /\ CallsOf("LoadCertFromFile") = {}
                /\ env.retrieved = NoCert =>
                      /\ status = "fatal"
                      /\ FatalMsgs = {MsgURLError}
                      /\ cert = NoCert
                      /\ CallsOf("AddCert") = {}
            /\ ~asURL =>
                /\ CallsOf("GetCertFromURL") = {}
                /\ Cardinality(CallsOf("os.Stat")) = 1
                /\ ~env.fileExists =>
                      /\ status = "fatal"
                      /\ FatalMsgs = {MsgNoSource}
                      /\ cert = NoCert
                      /\ CallsOf("LoadCertFromFile") = {}
                      /\ CallsOf("AddCert") = {}

\* A URL whose fetch failed while a file of the same name exists.
C3_Witness ==
    /\ Ended("trust")
    /\ Len(args) >= 1
    /\ urlParse(args[1]).scheme # <<>>
    /\ env.fileExists
    /\ env.retrieved = NoCert
    /\ status = "fatal"

(***************************************************************************)
(* C4: keysGenerate rejects the empty GUN and every GUN that begins with   *)
(* "/" or "\" with the "invalid Global Unique Name" failure, before any    *)
(* key is generated or certificate added; every other GUN passes.          *)
(***************************************************************************)
C4_InvalidGUNRejected ==
    (Ended("generate") /\ Len(args) >= 1) =>
        IF args[1] = <<>> \/ args[1][1] \in {"/", "\\"}
        THEN /\ status = "fatal"
             /\ FatalMsgs = {MsgInvalidGUN}
             /\ CallsOf("generateKeyAndCert") = {}
             /\ CallsOf("AddCert") = {}
             /\ caStore = store0
        ELSE Cardinality(CallsOf("generateKeyAndCert")) = 1

(***************************************************************************)
(* C5: no error of the trust store's AddCert or RemoveCert is swallowed:   *)
(* a command in which such a call failed ends in a reported failure and    *)
(* prints no success output; keysGenerate prints "Generated new keypair    *)
(* with ID" only when the certificate was added to the trust store.        *)
(***************************************************************************)
C5_StoreErrorsSurfaced ==
    (pc = "done" /\ cmd \in {"remove", "trust", "generate"}) =>
        /\ (\E i \in CallsOf("AddCert") \cup CallsOf("RemoveCert") : ~trace[i].ok) =>
              /\ status = "fatal"
              /\ PrintsOf("Adding: ") = {}
              /\ PrintsOf(MsgGenerated) = {}
        /\ PrintsOf(MsgGenerated) # {} => cert \in caStore

(***************************************************************************)
(* C6: for every way privDir is written, a key file stored at              *)
(* <privDir>/<GUN>/<fingerprint>.key is reported by printAllPrivateKeys    *)
(* as exactly the pair (GUN, fingerprint).                                 *)
(***************************************************************************)
C6_DecompositionRoundTrips ==
    \A n \in DOMAIN records :
        visits[records[n].src].layout =>
            /\ records[n].gun = visits[records[n].src].gun
            /\ records[n].fingerprint = visits[records[n].src].fingerprint

(***************************************************************************)
(* C7: the walk callback never returns an error, so every entry of the     *)
(* walk is visited; an entry that errored, a directory and a file whose    *)
(* name does not end in ".key" produce no record, and every other file     *)
(* produces exactly one, in the order of the walk.                         *)
(***************************************************************************)
Qualifies(v) == ~v.err /\ ~v.isDir /\ HasSuffix(v.name, DotKey)

C7_WalkTolerant ==
    cmd = "list" =>
        LET q == {i \in 1..idx : Qualifies(visits[i])}
        IN  /\ walkErr = Nil
            /\ Len(records) = Cardinality(q)
            /\ \A n \in DOMAIN records : records[n].src = NthOf(q, n)
            /\ (pc = "done" /\ status = "ok") => idx = Len(visits)

\* The walk ended after an entry that errored, a directory named like a key
\* and a key file that came after the error.
C7_Witness ==
    /\ Ended("list")
    /\ status = "ok"
    /\ \E i, j \in 1..idx : i < j /\ visits[i].err /\ Qualifies(visits[j])
    /\ \E i \in 1..idx : visits[i].isDir /\ HasSuffix(visits[i].name, DotKey)
    /\ records # <<>>

(***************************************************************************)
(* C8: a certificate built by newCertificate(gun, organization) has        *)
(* common name gun, a validity of exactly 730 days of 24 hours, a serial   *)
(* number in [0, 2^128), key usage {key encipherment, digital signature},  *)
(* extended key usage {code signing} and valid basic constraints; when the *)
(* random source fails the run is aborted and no certificate is built.     *)
(***************************************************************************)
TwoTo128 == <<0, 0, 0, 0, 0, 0, 0, 0, 1>>

C8_CertificateTemplate ==
    Ended("newCertificate") =>
        IF env.rand.fails
        THEN /\ status = "fatal"
             /\ FatalMsgs = {MsgSerial}
             /\ cert = NoCert
        ELSE /\ status = "ok"
             /\ cert.Subject.CommonName = args[1]
             /\ cert.Subject.Organization = <<args[2]>>
             /\ cert.NotBefore = env.now
             /\ cert.NotAfter - cert.NotBefore = 730 * 24 * 60 * 60
             /\ BigLess(cert.SerialNumber, TwoTo128)
             /\ \A i \in DOMAIN cert.SerialNumber : cert.SerialNumber[i] \in 0..65535
             /\ cert.KeyUsage = {"KeyEncipherment", "DigitalSignature"}
             /\ cert.ExtKeyUsage = <<"CodeSigning">>
             /\ cert.BasicConstraintsValid

\* A certificate for a multi-segment GUN with the largest serial number.
C8_Witness ==
    /\ Ended("newCertificate")
    /\ status = "ok"
    /\ args[1] = <<"a", "/", "b">>
    /\ cert.SerialNumber = [i \in 1..8 |-> 65535]

(***************************************************************************)
(* C9: askConfirm returns true exactly when one word was read from the     *)
(* first line of input and that word is "y" or "yes" in any letter case;   *)
(* for every other word, and whenever the read fails (empty input, an      *)
(* empty line, more than one word), it returns false.                      *)
(***************************************************************************)
FirstLine(in) ==
    LET n == IndexOf(in, "\n")
    IN  IF n = 0 THEN in ELSE SubSeq(in, 1, n - 1)

\* The positions of a line at which a word starts.
WordStarts(line) ==
    {i \in 1..Len(line) :
        line[i] \notin Spaces /\ (i = 1 \/ line[i - 1] \in Spaces)}

\* The word that starts at position i.
WordAt(line, i) ==
    LET stop == {j \in i..Len(line) : line[j] \in Spaces}
    IN  SubSeq(line, i, IF stop = {} THEN Len(line)
                        ELSE (CHOOSE j \in stop : \A k \in stop : j <= k) - 1)

UpperCase(c) ==
    CASE c = "y" -> "Y" [] c = "e" -> "E" [] c = "s" -> "S" [] c = "long_s" -> "S"
      [] c = "n" -> "N" [] OTHER -> c

ToUpper(w) == [i \in 1..Len(w) |-> UpperCase(w[i])]

C9_ConfirmExactlyYes ==
    Ended("askConfirm") =>
        LET line   == FirstLine(stdin)
            starts == WordStarts(line)
        IN  confirmed =
                /\ Cardinality(starts) = 1
                /\ ToUpper(WordAt(line, CHOOSE i \in starts : TRUE))
                       \in {<<"Y">>, <<"Y", "E", "S">>}

\* An affirmative answer written with capital letters.
C9_Witness ==
    /\ Ended("askConfirm")
    /\ confirmed
    /\ \E i \in DOMAIN stdin : stdin[i] \in {"Y", "E", "S"}

(***************************************************************************)
(* C10: in keysTrust AddCert is called at most once, and only after the    *)
(* certificate was retrieved and then the confirmation returned true; when *)
(* the resolution fails or the confirmation is negative AddCert is never   *)
(* called and the trust store is unchanged; "Adding:" is printed only      *)
(* after AddCert succeeded.                                                *)
(***************************************************************************)
C10_AddAfterResolveAndConfirm ==
    Ended("trust") =>
        LET adds     == CallsOf("AddCert")
            resolved == {i \in CallsOf("GetCertFromURL") \cup CallsOf("LoadCertFromFile") :
                            trace[i].ok}
            asked    == CallsOf("askConfirm")
        IN  /\ Cardinality(adds) <= 1
            /\ \A k \in adds :
                  \E i \in resolved, j \in asked : i < j /\ j < k /\ trace[j].ok
            /\ (resolved = {} \/ \E j \in asked : ~trace[j].ok) =>
                  /\ adds = {}
                  /\ caStore = store0
                  /\ status = "fatal"
            /\ \A j \in asked : trace[j].ok = askConfirm(env.stdin)
            /\ \A m \in PrintsOf("Adding: ") : \E k \in adds : k < m /\ trace[k].ok
            /\ caStore # store0 => \E k \in adds : trace[k].ok

\* The certificate was retrieved, confirmed and added.
C10_Witness ==
    /\ Ended("trust")
    /\ status = "ok"
    /\ PrintsOf("Adding: ") # {}
    /\ caStore # store0

====
